---- MODULE Spec2Model ----
(***************************************************************************)
(* A model of the sop-kode RSA library: the binary extended GCD and the    *)
(* modular inverse (rsa/math.rs), the Miller-Rabin test and the prime      *)
(* generator (rsa/primality.rs), the chunking codec (rsa/utils.rs) and key *)
(* generation with whole-message encryption and decryption (rsa.rs).       *)
(*                                                                         *)
(* BigInt / BigUint values are modelled by TLA+ integers.  A call that     *)
(* never returns is modelled by the result status "diverges", a Rust panic *)
(* by the status "panic".                                                  *)
(***************************************************************************)
EXTENDS Integers, Sequences, FiniteSets, TLC

VARIABLES
    fn,      \* name of the library function most recently called ("none" at start)
    args,    \* the arguments of that call
    ret,     \* what the call produced
    kpc,     \* generate_keys: "idle", "forked", "joined", "returned"
    bits,    \* generate_keys: the requested key size
    th,      \* generate_keys: the two generate_prime closures given to rayon::join
    keys,    \* generate_keys: the returned Option, or the panic
    sess     \* the last message / value encrypted and decrypted with `keys`

vars == <<fn, args, ret, kpc, bits, th, keys, sess>>

-----------------------------------------------------------------------------
(* Bounds of the model.                                                    *)

\* binary_extended_gcd and mod_inverse are called with |a|, |b| <= MaxAbs.
MaxAbs == 30

\* miller_rabin is called with every n in 0..MaxN (and the values of
\* ExtraCandidates) and every round count k in 0..MaxRounds.
MaxN == 130
MaxRounds == 26

\* gen_biguint(w) returns any value below 2^w.  The draws explored are the
\* small values 0..MaxSample (every draw of a 4-bit generation) and, for the
\* width they fill exactly, one 12-bit draw (MidSample) and one 20-bit draw
\* (BigSample).
MaxSample == 15
MidSample == 2800
BigSample == 917518

\* Messages have at most MaxMsgLen characters; raw plaintexts are 0..MaxPlain.
MaxMsgLen == 3
MaxPlain == 6

\* Chunking is tried with moduli of every bit length 2..MaxModulusBits.
MaxModulusBits == 17

-----------------------------------------------------------------------------
(* Integer helpers standing for num-bigint operations.                     *)

Abs(x) == IF x < 0 THEN -x ELSE x

\* BigInt >> 1: arithmetic shift, rounding toward minus infinity.
Shr1(x) == x \div 2

\* (x | y) & 1 == 0 : neither operand has its lowest bit set.
BothEven(x, y) == x % 2 = 0 /\ y % 2 = 0

RECURSIVE Pow2(_)
Pow2(k) == IF k = 0 THEN 1 ELSE 2 * Pow2(k - 1)

\* Rust's % on BigInt: the remainder takes the sign of the dividend.
Rem(x, m) == IF x < 0 THEN -((-x) % Abs(m)) ELSE x % Abs(m)

\* Reference gcd (Euclid); used only to state properties.
RECURSIVE Gcd(_, _)
Gcd(x, y) == IF y = 0 THEN Abs(x) ELSE Gcd(y, Abs(x) % Abs(y))

-----------------------------------------------------------------------------
(* rsa/math.rs: binary_extended_gcd                                        *)

Diverges == [status |-> "diverges"]

\* while ((&a | &b) & 1) == 0 { a >>= 1; b >>= 1; shift += 1; }
\* With a = b = 0 the body changes nothing the condition reads: no exit.
RECURSIVE ShiftLoop(_, _, _)
ShiftLoop(a, b, shift) ==
    IF BothEven(a, b)
    THEN IF a = 0 /\ b = 0
         THEN Diverges
         ELSE ShiftLoop(Shr1(a), Shr1(b), shift + 1)
    ELSE [status |-> "ok", a |-> a, b |-> b, shift |-> shift]

\* while (&u & 1) == 0 { u >>= 1; (a1, b1) = ... }   (entered only with u /= 0)
RECURSIVE HalveU(_, _, _, _, _)
HalveU(u, a1, b1, a, b) ==
    IF u % 2 = 0
    THEN IF BothEven(a1, b1)
         THEN HalveU(Shr1(u), Shr1(a1), Shr1(b1), a, b)
         ELSE HalveU(Shr1(u), Shr1(a1 + b), Shr1(b1 - a), a, b)
    ELSE [u |-> u, a1 |-> a1, b1 |-> b1]

\* while (&v & 1) == 0 { v >>= 1; (a2, b2) = ... }
\* With v = 0 the condition stays true forever (0 >> 1 = 0): no exit.
RECURSIVE HalveV(_, _, _, _, _)
HalveV(v, a2, b2, a, b) ==
    IF v % 2 = 0
    THEN IF v = 0
         THEN Diverges
         ELSE IF BothEven(a2, b2)
              THEN HalveV(Shr1(v), Shr1(a2), Shr1(b2), a, b)
              ELSE HalveV(Shr1(v), Shr1(a2 + b), Shr1(b2 - a), a, b)
    ELSE [status |-> "ok", v |-> v, a2 |-> a2, b2 |-> b2]

\* while u != 0 { halve u; halve v; subtract the smaller from the larger }
RECURSIVE MainLoop(_, _, _, _, _, _, _, _)
MainLoop(u, v, a1, b1, a2, b2, a, b) ==
    IF u = 0
    THEN [status |-> "ok", v |-> v, a2 |-> a2, b2 |-> b2]
    ELSE LET hu == HalveU(u, a1, b1, a, b)
             hv == HalveV(v, a2, b2, a, b)
         IN  IF hv.status = "diverges"
             THEN Diverges
             ELSE IF hu.u >= hv.v
                  THEN MainLoop(hu.u - hv.v, hv.v, hu.a1 - hv.a2, hu.b1 - hv.b2,
                                hv.a2, hv.b2, a, b)
                  ELSE MainLoop(hu.u, hv.v - hu.u, hu.a1, hu.b1,
                                hv.a2 - hu.a1, hv.b2 - hu.b1, a, b)

\* The whole function: the returned gcd g and the coefficients written to x, y.
\* u and v are copies of |a| and |b| taken BEFORE the shift loop reduces a and b.
binary_extended_gcd(a0, b0) ==
    LET sign_a == IF a0 < 0 THEN -1 ELSE 1
        sign_b == IF b0 < 0 THEN -1 ELSE 1
        sl     == ShiftLoop(Abs(a0), Abs(b0), 0)
    IN  IF sl.status = "diverges"
        THEN Diverges
        ELSE LET ml == MainLoop(Abs(a0), Abs(b0), 1, 0, 0, 1, sl.a, sl.b)
             IN  IF ml.status = "diverges"
                 THEN Diverges
                 ELSE [status |-> "ok",
                       g |-> ml.v * Pow2(sl.shift),
                       x |-> ml.a2 * sign_a,
                       y |-> ml.b2 * sign_b]

-----------------------------------------------------------------------------
(* rsa/math.rs: mod_inverse                                                *)

\* mod_inverse without the final normalisation into 0..m-1.
mod_inverse_unnormalised(a, m) ==
    LET r == binary_extended_gcd(a, m)
    IN  IF r.status = "diverges"
        THEN Diverges
        ELSE IF r.g # 1
             THEN [status |-> "ok", val |-> 0]
             ELSE [status |-> "ok", val |-> Rem(r.x, m)]

mod_inverse(a, m) ==
    LET r == binary_extended_gcd(a, m)
    IN  IF r.status = "diverges"
        THEN Diverges
        ELSE IF r.g # 1
             THEN [status |-> "ok", val |-> 0]
             ELSE LET result == Rem(r.x, m) + m
                  IN  [status |-> "ok",
                       val |-> IF result >= m THEN result - m ELSE result]

-----------------------------------------------------------------------------
(* Initial state and the calls of the arithmetic core.  A run makes one    *)
(* call of a library function from the initial state.                      *)

\* Each closure holds its candidate n; s keeps the value gen_biguint gave it.
NoThreads == [t \in {1, 2} |-> [pc |-> "start", n |-> 0, s |-> 0]]

Init ==
    /\ fn = "none"
    /\ args = <<>>
    /\ ret = [status |-> "none"]
    /\ kpc = "idle"
    /\ bits = 0
    /\ th = NoThreads
    /\ keys = [status |-> "none"]
    /\ sess = [op |-> "none"]

Call_binary_extended_gcd ==
    \E a \in -MaxAbs..MaxAbs, b \in -MaxAbs..MaxAbs :
        /\ fn = "none"
        /\ fn' = "binary_extended_gcd"
        /\ args' = <<a, b>>
        /\ ret' = binary_extended_gcd(a, b)
        /\ UNCHANGED <<kpc, bits, th, keys, sess>>

Call_mod_inverse ==
    \E a \in -MaxAbs..MaxAbs, m \in -MaxAbs..MaxAbs :
        /\ fn = "none"
        /\ fn' = "mod_inverse"
        /\ args' = <<a, m>>
        /\ ret' = mod_inverse(a, m)
        /\ UNCHANGED <<kpc, bits, th, keys, sess>>

NextMath == Call_binary_extended_gcd \/ Call_mod_inverse

SpecMath == Init /\ [][NextMath]_vars

-----------------------------------------------------------------------------
(* Properties of the arithmetic core (checked under SpecMath).             *)

\* C1: for m > 1 and gcd(a, m) = 1 (a of either sign, below or above m),
\* mod_inverse(a, m) returns x with 0 <= x < m and (a * x) mod m = 1; in
\* particular mod_inverse(7, 26) = 15, mod_inverse(-7, 26) = 11 and
\* mod_inverse(1, 29) = 1.
C1_ModInverseCoprime ==
    fn = "mod_inverse" =>
        /\ (args[2] > 1 /\ Gcd(args[1], args[2]) = 1) =>
              /\ ret.status = "ok"
              /\ ret.val \in 0..(args[2] - 1)
              /\ (args[1] * ret.val) % args[2] = 1
        /\ args = <<7, 26>> => ret = [status |-> "ok", val |-> 15]
        /\ args = <<-7, 26>> => ret = [status |-> "ok", val |-> 11]
        /\ args = <<1, 29>> => ret = [status |-> "ok", val |-> 1]

\* A negative a larger in magnitude than m has been inverted.
C1_Witness ==
    /\ fn = "mod_inverse"
    /\ args = <<-29, 26>>
    /\ ret.status = "ok"
    /\ ret.val = 17

\* C2: for a and m that are not coprime (including a = 0, m = 0, both even),
\* mod_inverse(a, m) returns 0.
C2_NonCoprimeReturnsZero ==
    (fn = "mod_inverse" /\ Gcd(args[1], args[2]) # 1) =>
        ret = [status |-> "ok", val |-> 0]

\* C7: the value g returned by binary_extended_gcd(a, b) is gcd(|a|, |b|),
\* for inputs of any sign, with one input 0, or both even.
C7_ReturnsGcd ==
    (fn = "binary_extended_gcd" /\ ret.status = "ok") =>
        ret.g = Gcd(args[1], args[2])

\* C8: the coefficients x, y written by binary_extended_gcd(a, b) satisfy
\* a * x + b * y = g for the returned g, also when a and b are both even.
C8_Bezout ==
    (fn = "binary_extended_gcd" /\ ret.status = "ok") =>
        args[1] * ret.x + args[2] * ret.y = ret.g

-----------------------------------------------------------------------------
(* BigUint helpers used by the primality test and by encryption.           *)

\* (x * y) % n for x, y < n.  The model checker's integers are 32-bit, so for
\* a large n (below 2^24) the product is accumulated over the base-128 digits
\* of y; the value is the same.
RECURSIVE MulMod(_, _, _)
MulMod(x, y, n) ==
    IF x = 0 \/ y = 0
    THEN 0
    ELSE IF n <= 46340
         THEN (x * y) % n
         ELSE LET hi == (MulMod(x, y \div 128, n) * 128) % n
                  lo == (x * (y % 128)) % n
              IN  (hi + lo) % n

RECURSIVE ModPowLoop(_, _, _)
ModPowLoop(b, e, n) ==
    IF e = 0
    THEN 1
    ELSE LET h  == ModPowLoop(b, e \div 2, n)
             sq == MulMod(h, h, n)
         IN  IF e % 2 = 1 THEN MulMod(sq, b, n) ELSE sq

\* BigUint::modpow(exponent, modulus) for modulus >= 1.
modpow(b, e, n) == IF n = 1 THEN 0 ELSE ModPowLoop(b % n, e, n)

\* BigUint::trailing_zeros of a non-zero value (None for 0 is handled by callers).
RECURSIVE trailing_zeros(_)
trailing_zeros(x) == IF x % 2 = 1 THEN 0 ELSE 1 + trailing_zeros(x \div 2)

-----------------------------------------------------------------------------
(* rsa/primality.rs: miller_rabin                                          *)

small_primes ==
    <<2, 3, 5, 7, 11, 13, 17, 19, 23, 29, 31, 37, 41, 43, 47, 53, 59, 61, 67,
      71, 73, 79, 83, 89, 97>>

Panic == [status |-> "panic"]
Bool(b) == [status |-> "ok", val |-> b]

\* The pre-filter without its divisibility rejection.
RECURSIVE Sieve_exact_match_only(_, _)
Sieve_exact_match_only(n, i) ==
    IF i > Len(small_primes)
    THEN "pass"
    ELSE IF n = small_primes[i]
         THEN "prime"
         ELSE Sieve_exact_match_only(n, i + 1)

\* The pre-filter testing divisibility before the exact match.
RECURSIVE Sieve_divisibility_first(_, _)
Sieve_divisibility_first(n, i) ==
    IF i > Len(small_primes)
    THEN "pass"
    ELSE IF n % small_primes[i] = 0
         THEN "composite"
         ELSE IF n = small_primes[i]
              THEN "prime"
              ELSE Sieve_divisibility_first(n, i + 1)

\* for &prime in small_primes { if n == prime {return true}
\*                              else if n % prime == 0 {return false} }
RECURSIVE Sieve(_, _)
Sieve(n, i) ==
    IF i > Len(small_primes)
    THEN "pass"
    ELSE IF n = small_primes[i]
         THEN "prime"
         ELSE IF n % small_primes[i] = 0
              THEN "composite"
              ELSE Sieve(n, i + 1)

\* for _ in 0..r { x = x^2 mod n; if x == 1 {return false}
\*                 if x == n-1 {continue 'outer} }  return false
\* j counts the iterations still to run.
RECURSIVE SquareLoop(_, _, _)
SquareLoop(x, n, j) ==
    IF j = 0
    THEN "composite"
    ELSE LET x2 == modpow(x, 2, n)
         IN  IF x2 = 1
             THEN "composite"
             ELSE IF x2 = n - 1
                  THEN "pass"
                  ELSE SquareLoop(x2, n, j - 1)


\* The round loop taking its base one place further along the table.
RECURSIVE RoundLoop_next_base(_, _, _, _, _)
RoundLoop_next_base(n, k, i, d, r) ==
    IF i >= k
    THEN TRUE
    ELSE LET a == small_primes[((i + 1) % Len(small_primes)) + 1]
             x == modpow(a, d, n)
         IN  IF x = 1 \/ x = n - 1
             THEN RoundLoop_next_base(n, k, i + 1, d, r)
             ELSE IF SquareLoop(x, n, r) = "pass"
                  THEN RoundLoop_next_base(n, k, i + 1, d, r)
                  ELSE FALSE

\* 'outer: for i in 0..k { a = small_primes[i % 25]; x = a^d mod n; ... }
RECURSIVE RoundLoop(_, _, _, _, _)
RoundLoop(n, k, i, d, r) ==
    IF i >= k
    THEN TRUE
    ELSE LET a == small_primes[(i % Len(small_primes)) + 1]
             x == modpow(a, d, n)
         IN  IF x = 1 \/ x = n - 1
             THEN RoundLoop(n, k, i + 1, d, r)
             ELSE IF SquareLoop(x, n, r) = "pass"
                  THEN RoundLoop(n, k, i + 1, d, r)
                  ELSE FALSE

\* n - 1 = 0 makes trailing_zeros() return None and unwrap() panic; the
\* unsigned subtraction itself panics on n = 0 (which the pre-filter rejects
\* as a multiple of 2 before it gets there).
miller_rabin(n, k) ==
    LET s == Sieve(n, 1)
    IN  IF s = "prime"
        THEN Bool(TRUE)
        ELSE IF s = "composite"
             THEN Bool(FALSE)
             ELSE LET n_minus_one == n - 1
                  IN  IF n = 0 \/ n_minus_one = 0
                      THEN Panic
                      ELSE LET r == trailing_zeros(n_minus_one)
                               d == n_minus_one \div Pow2(r)
                           IN  Bool(RoundLoop(n, k, 0, d, r))

\* Composite values with a table prime as a factor that every base-2 round
\* passes (strong pseudoprimes to base 2): 2047 = 23 * 89, 3277 = 29 * 113.
ExtraCandidates == {2047, 3277}


\* Composite values that pass the pre-filter (every prime factor is above 97):
\* 10201 = 101^2, 10403 = 101 * 103, and the strong pseudoprimes to base 2
\* 49141 = 157 * 313 and 88357 = 149 * 593.
UnsievedComposites == {10201, 10403, 49141, 88357}

Call_miller_rabin ==
    \E n \in (0..MaxN) \cup ExtraCandidates \cup UnsievedComposites,
       k \in 0..MaxRounds :
        /\ fn = "none"
        /\ fn' = "miller_rabin"
        /\ args' = <<n, k>>
        /\ ret' = miller_rabin(n, k)
        /\ UNCHANGED <<kpc, bits, th, keys, sess>>

NextPrime == Call_miller_rabin

SpecPrime == Init /\ [][NextPrime]_vars

-----------------------------------------------------------------------------
(* Properties of the primality test (checked under SpecPrime).             *)

IsPrime(n) == n > 1 /\ \A q \in 2..(n - 1) : n % q # 0

HasTablePrimeFactor(n) ==
    \E i \in 1..Len(small_primes) : n % small_primes[i] = 0

\* C9: for every prime p (in the table or above 97) and every round count
\* k >= 0, miller_rabin(p, k) returns true.
C9_PrimesAccepted ==
    (fn = "miller_rabin" /\ IsPrime(args[1])) => ret = Bool(TRUE)

\* A prime above the table, tested with more rounds than the table has bases;
\* 113 - 1 = 2^4 * 7, so the squaring loop runs.
C9_Witness ==
    /\ fn = "miller_rabin"
    /\ args = <<113, 26>>
    /\ ret = Bool(TRUE)

\* C10: for every composite n with a prime factor <= 97 and every k >= 1,
\* miller_rabin(n, k) returns false.
C10_SievedCompositesRejected ==
    (/\ fn = "miller_rabin"
     /\ args[1] > 1
     /\ ~IsPrime(args[1])
     /\ HasTablePrimeFactor(args[1])
     /\ args[2] >= 1) => ret = Bool(FALSE)

\* A composite that the witness rounds alone would accept is rejected.
C10_Witness ==
    /\ fn = "miller_rabin"
    /\ args = <<2047, 1>>
    /\ ret = Bool(FALSE)

-----------------------------------------------------------------------------
(* rsa/utils.rs and rsa.rs: the chunking codec.  A message is the sequence *)
(* of its characters' code points; a chunk is a sequence of bytes.         *)

\* BigUint::bits: the number of significant bits (0 for 0).
RECURSIVE bit_length(_)
bit_length(n) == IF n = 0 THEN 0 ELSE 1 + bit_length(n \div 2)

calculate_chunk_size(n) == bit_length(n) \div 8


\* The UTF-8 bytes of the string (str::bytes) in place of `c as u8`.
RECURSIVE as_bytes_utf8(_)
as_bytes_utf8(s) ==
    IF s = <<>>
    THEN <<>>
    ELSE (IF Head(s) < 128
          THEN <<Head(s)>>
          ELSE <<192 + (Head(s) \div 64), 128 + (Head(s) % 64)>>)
         \o as_bytes_utf8(Tail(s))

\* s.chars().map(|c| c as u8): the low eight bits of each code point.
RECURSIVE as_bytes(_)
as_bytes(s) == IF s = <<>> THEN <<>> ELSE <<Head(s) % 256>> \o as_bytes(Tail(s))

\* Vec::resize(len + padding, 0) appends `padding` zero bytes.
RECURSIVE zeros(_)
zeros(k) == IF k = 0 THEN <<>> ELSE <<0>> \o zeros(k - 1)

\* slice::chunks(chunk_size) of a sequence whose length is a multiple of it.
RECURSIVE chunks(_, _)
chunks(bytes, chunk_size) ==
    IF bytes = <<>>
    THEN <<>>
    ELSE <<SubSeq(bytes, 1, chunk_size)>>
         \o chunks(SubSeq(bytes, chunk_size + 1, Len(bytes)), chunk_size)

\* `bytes.len() % chunk_size` panics when chunk_size is 0.
chunk_message(s, chunk_size) ==
    IF chunk_size = 0
    THEN Panic
    ELSE LET bytes   == as_bytes(s)
             padding == chunk_size - (Len(bytes) % chunk_size)
         IN  [status |-> "ok",
              val |-> chunks(bytes \o zeros(padding), chunk_size)]

\* BigUint::from_bytes_be
RECURSIVE from_bytes_be(_)
from_bytes_be(bytes) ==
    IF bytes = <<>>
    THEN 0
    ELSE 256 * from_bytes_be(SubSeq(bytes, 1, Len(bytes) - 1)) + bytes[Len(bytes)]

\* BigUint::to_bytes_be: no leading zero bytes; the single byte 0 for 0.
RECURSIVE to_bytes_be(_)
to_bytes_be(v) ==
    IF v < 256 THEN <<v>> ELSE to_bytes_be(v \div 256) \o <<v % 256>>

IsCont(b) == b >= 128 /\ b <= 191

\* String::from_utf8: the code points of a well-formed UTF-8 byte sequence,
\* or an error (no overlong forms, no surrogates, nothing above U+10FFFF).
RECURSIVE from_utf8(_)
from_utf8(b) ==
    IF b = <<>>
    THEN [status |-> "ok", val |-> <<>>]
    ELSE LET b1 == b[1]
             k  == IF b1 < 128 THEN 1
                   ELSE IF b1 >= 194 /\ b1 <= 223 THEN 2
                   ELSE IF b1 >= 224 /\ b1 <= 239 THEN 3
                   ELSE IF b1 >= 240 /\ b1 <= 244 THEN 4
                   ELSE 0
             wf == /\ k > 0
                   /\ Len(b) >= k
                   /\ \A i \in 2..k : IsCont(b[i])
                   /\ (b1 = 224 => b[2] >= 160)
                   /\ (b1 = 237 => b[2] <= 159)
                   /\ (b1 = 240 => b[2] >= 144)
                   /\ (b1 = 244 => b[2] <= 143)
         IN  IF ~wf
             THEN [status |-> "err"]
             ELSE LET cp   == IF k = 1 THEN b1
                              ELSE IF k = 2 THEN (b1 - 192) * 64 + (b[2] - 128)
                              ELSE IF k = 3
                                   THEN (b1 - 224) * 4096 + (b[2] - 128) * 64
                                        + (b[3] - 128)
                                   ELSE (b1 - 240) * 262144 + (b[2] - 128) * 4096
                                        + (b[3] - 128) * 64 + (b[4] - 128)
                      rest == from_utf8(SubSeq(b, k + 1, Len(b)))
                  IN  IF rest.status = "err"
                      THEN rest
                      ELSE [status |-> "ok", val |-> <<cp>> \o rest.val]

\* str::trim_end_matches('\0')
RECURSIVE trim_end_nulls(_)
trim_end_nulls(s) ==
    IF s # <<>> /\ s[Len(s)] = 0
    THEN trim_end_nulls(SubSeq(s, 1, Len(s) - 1))
    ELSE s

-----------------------------------------------------------------------------
(* rsa.rs: encrypt, decrypt, encrypt_message, decrypt_message.             *)
(* A public key is <<n, e>>, a private key <<n, d>>.                       *)


\* encrypt multiplying by the exponent where it should raise to it.
encrypt_by_product(message, public_key) ==
    (message * public_key[2]) % public_key[1]

encrypt(message, public_key) == modpow(message, public_key[2], public_key[1])

decrypt(ciphertext, private_key) == modpow(ciphertext, private_key[2], private_key[1])

encrypt_message(message, public_key) ==
    LET chunk_size == calculate_chunk_size(public_key[1])
        chunked    == chunk_message(message, chunk_size)
    IN  IF chunked.status = "panic"
        THEN Panic
        ELSE [status |-> "ok",
              val |-> [i \in 1..Len(chunked.val) |->
                          encrypt(from_bytes_be(chunked.val[i]), public_key)]]

RECURSIVE flatten(_)
flatten(ss) == IF ss = <<>> THEN <<>> ELSE Head(ss) \o flatten(Tail(ss))


\* decrypt_message decoding with String::from_utf8_lossy in place of
\* from_utf8(..).unwrap(): an ill-formed sequence becomes U+FFFD.
decrypt_message_lossy(encrypted_message, private_key) ==
    LET decrypted_chunks ==
            [i \in 1..Len(encrypted_message) |->
                to_bytes_be(decrypt(encrypted_message[i], private_key))]
        decoded == from_utf8(flatten(decrypted_chunks))
    IN  IF decoded.status = "err"
        THEN [status |-> "ok", val |-> <<65533>>]
        ELSE [status |-> "ok", val |-> trim_end_nulls(decoded.val)]

\* String::from_utf8(..).unwrap() panics on bytes that are not UTF-8.
decrypt_message(encrypted_message, private_key) ==
    LET decrypted_chunks ==
            [i \in 1..Len(encrypted_message) |->
                to_bytes_be(decrypt(encrypted_message[i], private_key))]
        decoded == from_utf8(flatten(decrypted_chunks))
    IN  IF decoded.status = "err"
        THEN Panic
        ELSE [status |-> "ok", val |-> trim_end_nulls(decoded.val)]

-----------------------------------------------------------------------------
(* rsa.rs: generate_prime and generate_keys.  The two generate_prime       *)
(* closures passed to rayon::join are threads 1 and 2; their steps         *)
(* interleave freely.                                                      *)

\* The public exponent fixed by generate_keys.
PublicExponent == 65537

\* The rounds generate_prime asks of miller_rabin.
PrimeRounds == 5

\* The key sizes generate_keys is called with.
KeyBits == {8, 24, 40}

\* The draws of rng.gen_biguint(w) that are explored: all are below 2^w.
Samples(w) ==
    {s \in 0..MaxSample : s < Pow2(w)}
    \cup {s \in {MidSample, BigSample} : Pow2(w - 1) <= s /\ s < Pow2(w)}

calculate_totient(p, q) == (p - 1) * (q - 1)

\* generate_keys starts: rayon::join forks the two prime generations.
Fork ==
    \E b \in KeyBits :
        /\ fn = "none"
        /\ kpc = "idle"
        /\ fn' = "generate_keys"
        /\ args' = <<b>>
        /\ kpc' = "forked"
        /\ bits' = b
        /\ th' = NoThreads
        /\ UNCHANGED <<ret, keys, sess>>

\* let mut n = rng.gen_biguint(bits)
Sample(t) ==
    /\ kpc = "forked"
    /\ th[t].pc = "start"
    /\ \E s \in Samples(bits \div 2) :
           th' = [th EXCEPT ![t] = [pc |-> "odd", n |-> s, s |-> s]]
    /\ UNCHANGED <<fn, args, ret, kpc, bits, keys, sess>>

\* if &n % 2 == 0 { n += 1 }
ForceOdd(t) ==
    /\ kpc = "forked"
    /\ th[t].pc = "odd"
    /\ th' = [th EXCEPT ![t].pc = "test",
                         ![t].n = IF th[t].n % 2 = 0 THEN th[t].n + 1
                                                     ELSE th[t].n]
    /\ UNCHANGED <<fn, args, ret, kpc, bits, keys, sess>>


\* The loop of generate_prime stepping by 4 (n += 4) after a failed test.
Test_advance_by_four(t) ==
    /\ kpc = "forked"
    /\ th[t].pc = "test"
    /\ LET r == miller_rabin(th[t].n, PrimeRounds)
       IN  IF r.status = "panic"
           THEN th' = [th EXCEPT ![t].pc = "panic"]
           ELSE IF r.val
                THEN th' = [th EXCEPT ![t].pc = "done"]
                ELSE th' = [th EXCEPT ![t].n = th[t].n + 4]
    /\ UNCHANGED <<fn, args, ret, kpc, bits, keys, sess>>

\* while !miller_rabin(&n, 5) { n += 2 }   then return n
Test(t) ==
    /\ kpc = "forked"
    /\ th[t].pc = "test"
    /\ LET r == miller_rabin(th[t].n, PrimeRounds)
       IN  IF r.status = "panic"
           THEN th' = [th EXCEPT ![t].pc = "panic"]
           ELSE IF r.val
                THEN th' = [th EXCEPT ![t].pc = "done"]
                ELSE th' = [th EXCEPT ![t].n = th[t].n + 2]
    /\ UNCHANGED <<fn, args, ret, kpc, bits, keys, sess>>


\* A join that returns as soon as one of the closures has finished.
Join_waits_for_one ==
    /\ kpc = "forked"
    /\ \E t \in {1, 2} : th[t].pc \in {"done", "panic"}
    /\ IF \E t \in {1, 2} : th[t].pc = "panic"
       THEN kpc' = "returned" /\ keys' = Panic
       ELSE kpc' = "joined" /\ keys' = keys
    /\ UNCHANGED <<fn, args, ret, bits, th, sess>>

\* rayon::join returns once both closures have finished; a panic in either
\* is resumed in the caller.
Join ==
    /\ kpc = "forked"
    /\ \A t \in {1, 2} : th[t].pc \in {"done", "panic"}
    /\ IF \E t \in {1, 2} : th[t].pc = "panic"
       THEN kpc' = "returned" /\ keys' = Panic
       ELSE kpc' = "joined" /\ keys' = keys
    /\ UNCHANGED <<fn, args, ret, bits, th, sess>>


\* generate_keys with the duplicate test written as p <= q.
generate_keys_result_ordered_test(p, q) ==
    IF p <= q
    THEN [status |-> "None"]
    ELSE LET n   == p * q
             phi == calculate_totient(p, q)
             e   == PublicExponent
             d   == mod_inverse(e, phi)
         IN  IF d.status = "diverges"
             THEN Diverges
             ELSE [status |-> "Some", n |-> n, e |-> e, d |-> d.val]

\* The rest of generate_keys, with p and q the values the closures returned.
generate_keys_result(p, q) ==
    IF p = q
    THEN [status |-> "None"]
    ELSE LET n   == p * q
             phi == calculate_totient(p, q)
             e   == PublicExponent
             d   == mod_inverse(e, phi)
         IN  IF d.status = "diverges"
             THEN Diverges
             ELSE [status |-> "Some", n |-> n, e |-> e, d |-> d.val]

Derive ==
    /\ kpc = "joined"
    /\ kpc' = "returned"
    /\ keys' = generate_keys_result(th[1].n, th[2].n)
    /\ UNCHANGED <<fn, args, ret, bits, th, sess>>

public_key == <<keys.n, keys.e>>
private_key == <<keys.n, keys.d>>

\* The characters messages are made of: NUL, 'A', '~' and U+00C8.
MsgChars == {0, 65, 126, 200}

RECURSIVE SeqsUpTo(_, _)
SeqsUpTo(S, k) ==
    IF k = 0
    THEN {<<>>}
    ELSE LET shorter == SeqsUpTo(S, k - 1)
         IN  shorter \cup {Append(m, c) : m \in shorter, c \in S}

Messages == SeqsUpTo(MsgChars, MaxMsgLen)

HaveKeys == kpc = "returned" /\ keys.status = "Some"

EncryptMessage ==
    \E message \in Messages :
        /\ HaveKeys
        /\ sess.op = "none"
        /\ sess' = [op |-> "encrypt_message", msg |-> message,
                    out |-> encrypt_message(message, public_key)]
        /\ UNCHANGED <<fn, args, ret, kpc, bits, th, keys>>

DecryptMessage ==
    /\ HaveKeys
    /\ sess.op = "encrypt_message"
    /\ sess.out.status = "ok"
    /\ sess' = [op |-> "decrypt_message", msg |-> sess.msg,
                cipher |-> sess.out.val,
                out |-> decrypt_message(sess.out.val, private_key)]
    /\ UNCHANGED <<fn, args, ret, kpc, bits, th, keys>>

Encrypt ==
    \E m \in 0..MaxPlain :
        /\ HaveKeys
        /\ sess.op = "none"
        /\ m < keys.n
        /\ sess' = [op |-> "encrypt", m |-> m, c |-> encrypt(m, public_key)]
        /\ UNCHANGED <<fn, args, ret, kpc, bits, th, keys>>

Decrypt ==
    /\ HaveKeys
    /\ sess.op = "encrypt"
    /\ sess' = [op |-> "decrypt", m |-> sess.m, c |-> sess.c,
                back |-> decrypt(sess.c, private_key)]
    /\ UNCHANGED <<fn, args, ret, kpc, bits, th, keys>>

NextKeys ==
    \/ Fork
    \/ \E t \in {1, 2} : Sample(t) \/ ForceOdd(t) \/ Test(t)
    \/ Join
    \/ Derive
    \/ EncryptMessage
    \/ DecryptMessage
    \/ Encrypt
    \/ Decrypt

SpecKeys == Init /\ [][NextKeys]_vars

-----------------------------------------------------------------------------
(* Properties of generated keys (checked under SpecKeys).                  *)

\* Printable ASCII: U+0020 .. U+007E, so no null character.
PrintableAscii(message) ==
    \A i \in 1..Len(message) : message[i] >= 32 /\ message[i] <= 126

\* C3: for a key pair returned by generate_keys and a message of printable
\* ASCII characters of any length, encrypt_message yields a ciphertext and
\* decrypt_message of it yields the message.
C3_MessageRoundTrip ==
    (HaveKeys /\ sess.op \in {"encrypt_message", "decrypt_message"}
              /\ PrintableAscii(sess.msg)) =>
        /\ sess.op = "encrypt_message" => sess.out.status = "ok"
        /\ sess.op = "decrypt_message" =>
               sess.out = [status |-> "ok", val |-> sess.msg]

\* C5: a key pair returned by generate_keys has e = 65537 and
\* e * d = 1 (mod (p - 1)(q - 1)) for the primes p /= q it was built from.
C5_ExponentsInverse ==
    HaveKeys =>
        LET phi == calculate_totient(th[1].n, th[2].n)
        IN  /\ keys.e = 65537
            /\ MulMod(keys.e % phi, keys.d, phi) = 1

\* C6: for a key pair returned by generate_keys and 0 <= m < n,
\* decrypt(encrypt(m, public_key), private_key) = m.
C6_RawRoundTrip ==
    (HaveKeys /\ sess.op = "decrypt") => sess.back = sess.m

-----------------------------------------------------------------------------
(* The chunking codec called on its own, for any modulus.                  *)

\* For each bit length b: the smallest, the next and the largest b-bit modulus.
Moduli ==
    UNION {{Pow2(b - 1), Pow2(b - 1) + 1, Pow2(b) - 1} : b \in 2..MaxModulusBits}

\* chunk_message(message, calculate_chunk_size(n)), as encrypt_message calls it.
Call_chunk_message ==
    \E n \in Moduli, message \in Messages :
        /\ fn = "none"
        /\ fn' = "chunk_message"
        /\ args' = <<n, message>>
        /\ ret' = chunk_message(message, calculate_chunk_size(n))
        /\ UNCHANGED <<kpc, bits, th, keys, sess>>

NextChunk == Call_chunk_message

SpecChunk == Init /\ [][NextChunk]_vars

\* C4: every chunk of chunk_message(message, calculate_chunk_size(n)), read as
\* a big-endian unsigned integer, is below n, whatever the bit length of n
\* and also for characters that map to bytes >= 0x80.
C4_ChunksBelowModulus ==
    (fn = "chunk_message" /\ ret.status = "ok") =>
        \A i \in 1..Len(ret.val) : from_bytes_be(ret.val[i]) < args[1]

-----------------------------------------------------------------------------
(* generate_keys: its outcome and its single pair of prime generations     *)
(* (checked under SpecKeys).                                               *)

\* Both closures returned a prime and generate_keys has returned.
KeysReturned ==
    /\ kpc = "returned"
    /\ \A t \in {1, 2} : th[t].pc = "done"

\* A step never starts a second generation in a closure, never changes a
\* closure after the join, and never replaces the returned result.
NoRetry ==
    /\ \A t \in {1, 2} :
           (kpc = "forked" /\ th[t].pc # "start") =>
               (th'[t].pc # "start" /\ th'[t].s = th[t].s)
    /\ kpc \in {"joined", "returned"} => th' = th
    /\ kpc = "returned" => (kpc' = "returned" /\ keys' = keys)

\* C11: generate_keys returns None exactly when the two generated primes are
\* equal and a key pair when they differ, and each call makes one pair of
\* prime generations: no closure draws a second sample and nothing is
\* regenerated after the join or after the result is returned.
C11_NoneIffDuplicatePrimes ==
    /\ [](KeysReturned =>
             /\ keys.status \in {"None", "Some"}
             /\ (keys.status = "None") <=> (th[1].n = th[2].n)
             /\ (th[1].n # th[2].n) =>
                    (keys.status = "Some" /\ keys.n = th[1].n * th[2].n))
    /\ [][NoRetry]_vars

\* Both closures returned the same prime and generate_keys returned None.
C11_Witness ==
    /\ KeysReturned
    /\ th[1].n = th[2].n
    /\ th[1].n = 2801
    /\ keys.status = "None"

-----------------------------------------------------------------------------
(* chunk_message called with a chunk size of its own (checked under        *)
(* SpecPad).                                                               *)

\* Chunk sizes are 0..MaxChunkSize.
MaxChunkSize == 5

\* "Hello, world!", the message of the unit test.
HelloWorld == <<72, 101, 108, 108, 111, 44, 32, 119, 111, 114, 108, 100, 33>>

Call_chunk_message_sized ==
    \E message \in Messages \cup {HelloWorld}, chunk_size \in 0..MaxChunkSize :
        /\ fn = "none"
        /\ fn' = "chunk_message_sized"
        /\ args' = <<message, chunk_size>>
        /\ ret' = chunk_message(message, chunk_size)
        /\ UNCHANGED <<kpc, bits, th, keys, sess>>

NextPad == Call_chunk_message_sized

SpecPad == Init /\ [][NextPad]_vars

CeilDiv(a, b) == (a + b - 1) \div b

\* C12: for a message of L bytes and a chunk size s >= 1, chunk_message adds
\* only the zero bytes needed to reach a multiple of s (none when L already is
\* one), so it returns exactly ceil(L / s) chunks.
C12_MinimalPadding ==
    (fn = "chunk_message_sized" /\ args[2] >= 1) =>
        LET L == Len(args[1])
            s == args[2]
        IN  /\ ret.status = "ok"
            /\ Len(ret.val) = CeilDiv(L, s)
            /\ Len(flatten(ret.val)) - L = (s - (L % s)) % s

\* C13: every chunk has exactly s bytes, and the chunks concatenated are the
\* message's bytes, one per character and in order, followed only by zero
\* bytes; "Hello, world!" with s = 5 gives the three chunks of the unit test.
C13_ChunksCoverMessage ==
    (fn = "chunk_message_sized" /\ args[2] >= 1) =>
        LET message == args[1]
            s       == args[2]
            L       == Len(message)
        IN  /\ ret.status = "ok"
            /\ \A i \in 1..Len(ret.val) : Len(ret.val[i]) = s
            /\ LET all == flatten(ret.val)
               IN  /\ Len(all) >= L
                   /\ \A j \in 1..Len(all) :
                          all[j] = IF j <= L THEN message[j] % 256 ELSE 0
            /\ (message = HelloWorld /\ s = 5) =>
                   ret.val = << <<72, 101, 108, 108, 111>>,
                                <<44, 32, 119, 111, 114>>,
                                <<108, 100, 33, 0, 0>> >>

\* A message with a character above U+007F is chunked, with padding.
C13_Witness ==
    /\ fn = "chunk_message_sized"
    /\ args = << <<65, 200, 126>>, 2 >>
    /\ ret = [status |-> "ok", val |-> << <<65, 200>>, <<126, 0>> >>]

-----------------------------------------------------------------------------
(* The raw primitives encrypt and decrypt called on their own (checked     *)
(* under SpecRaw).                                                         *)

\* Messages and ciphertexts are 0..MaxRawMessage, moduli 1..MaxRawModulus,
\* exponents 0..MaxRawExponent.
MaxRawMessage == 13
MaxRawModulus == 34
MaxRawExponent == 7

Call_encrypt ==
    \E m \in 0..MaxRawMessage, n \in 1..MaxRawModulus, e \in 0..MaxRawExponent :
        /\ fn = "none"
        /\ fn' = "encrypt"
        /\ args' = <<m, <<n, e>> >>
        /\ ret' = encrypt(m, <<n, e>>)
        /\ UNCHANGED <<kpc, bits, th, keys, sess>>

Call_decrypt ==
    \E c \in 0..MaxRawMessage, n \in 1..MaxRawModulus, d \in 0..MaxRawExponent :
        /\ fn = "none"
        /\ fn' = "decrypt"
        /\ args' = <<c, <<n, d>> >>
        /\ ret' = decrypt(c, <<n, d>>)
        /\ UNCHANGED <<kpc, bits, th, keys, sess>>

NextRaw == Call_encrypt \/ Call_decrypt

SpecRaw == Init /\ [][NextRaw]_vars

\* x^k over the integers.
RECURSIVE Power(_, _)
Power(x, k) == IF k = 0 THEN 1 ELSE x * Power(x, k - 1)

\* C14: for every m, c and key with n >= 1, encrypt(m, (n, e)) = m^e mod n and
\* decrypt(c, (n, d)) = c^d mod n, each in 0..n-1; encrypt(7, (33, 3)) = 13
\* and decrypt(13, (33, 7)) = 7.
C14_RawIsModularPower ==
    (fn \in {"encrypt", "decrypt"}) =>
        LET x == args[1]
            n == args[2][1]
            k == args[2][2]
        IN  /\ ret = Power(x, k) % n
            /\ 0 <= ret /\ ret < n
            /\ (fn = "encrypt" /\ args = <<7, <<33, 3>> >>) => ret = 13
            /\ (fn = "decrypt" /\ args = <<13, <<33, 7>> >>) => ret = 7

\* The encryption of the unit test has been made.
C14_Witness ==
    /\ fn = "encrypt"
    /\ args = <<7, <<33, 3>> >>
    /\ ret = 13

-----------------------------------------------------------------------------
(* decrypt_message called on ciphertexts that no encrypt_message made, as  *)
(* happens with a mismatched key (checked under SpecDecode).               *)

\* At most MaxCipherLen ciphertext chunks.
MaxCipherLen == 2

\* Ciphertext chunks: they decrypt to NUL, 'A', a lone lead byte (0xC8, 0xC3),
\* a lone continuation byte (0x88), the two bytes of U+00C8 (0xC3 0x88) and
\* the byte 0xFF under the key (65536, 1).
CipherValues == {0, 65, 136, 195, 200, 255, 50056}

\* The private key of the documentation example, and two more.
DecryptKeys == {<<33, 7>>, <<256, 3>>, <<65536, 1>>}

Call_decrypt_message ==
    \E encrypted_message \in SeqsUpTo(CipherValues, MaxCipherLen),
       key \in DecryptKeys :
        /\ fn = "none"
        /\ fn' = "decrypt_message"
        /\ args' = <<encrypted_message, key>>
        /\ ret' = decrypt_message(encrypted_message, key)
        /\ UNCHANGED <<kpc, bits, th, keys, sess>>

NextDecode == Call_decrypt_message

SpecDecode == Init /\ [][NextDecode]_vars

\* The bytes decrypt_message decodes: the big-endian bytes of each decrypted
\* chunk, concatenated.
DecryptedBytes ==
    flatten([i \in 1..Len(args[1]) |->
                to_bytes_be(modpow(args[1][i], args[2][2], args[2][1]))])

\* C16: when the concatenated decrypted bytes are not valid UTF-8,
\* decrypt_message fails fatally and returns no text: never a partial or
\* lossy decoding.  When they are valid it returns all of the decoded text up
\* to its trailing null characters.
C16_InvalidUtf8IsFatal ==
    (fn = "decrypt_message") =>
        LET decoded == from_utf8(DecryptedBytes)
        IN  IF decoded.status = "err"
            THEN ret = [status |-> "panic"]
            ELSE /\ ret.status = "ok"
                 /\ \E k \in 0..Len(decoded.val) :
                        /\ ret.val = SubSeq(decoded.val, 1, k)
                        /\ \A j \in (k + 1)..Len(decoded.val) : decoded.val[j] = 0

\* A lead byte followed by a byte that does not continue it: fatal.
C16_Witness ==
    /\ fn = "decrypt_message"
    /\ args = << <<65, 200>>, <<65536, 1>> >>
    /\ DecryptedBytes = <<65, 200>>
    /\ ret = [status |-> "panic"]

-----------------------------------------------------------------------------
(* generate_prime: the value a closure returns (checked under SpecKeys).   *)

\* The candidate passes miller_rabin with the five rounds of generate_prime.
Passes(c) == miller_rabin(c, PrimeRounds) = Bool(TRUE)

\* The first candidate: the sample, plus one when it is even.
FirstCandidate(s) == IF s % 2 = 0 THEN s + 1 ELSE s

\* C17: every value returned by generate_prime is odd, passes miller_rabin
\* with 5 rounds, and is the first of the candidates s', s' + 2, s' + 4, ...
\* that passes, s' being the sample made odd: no candidate is skipped.
C17_FirstPassingCandidate ==
    \A t \in {1, 2} :
        th[t].pc = "done" =>
            LET first == FirstCandidate(th[t].s)
            IN  /\ th[t].n % 2 = 1
                /\ Passes(th[t].n)
                /\ th[t].n >= first
                /\ (th[t].n - first) % 2 = 0
                /\ \A c \in first..(th[t].n - 1) :
                       (c - first) % 2 = 0 => ~Passes(c)

\* A closure drew 8, tried 9 in vain, and returned 11.
C17_Witness ==
    \E t \in {1, 2} :
        /\ th[t].pc = "done"
        /\ th[t].s = 8
        /\ th[t].n = 11

\* The width generate_keys asks of each generate_prime: bits / 2.
PrimeBits == bits \div 2

\* C18 as stated: the value returned by generate_prime(bits) has bit length
\* exactly bits, 2^(bits-1) <= result < 2^bits, whatever the sample and the
\* number of +2 advances.
C18_ExactBitLength ==
    \A t \in {1, 2} :
        th[t].pc = "done" =>
            /\ Pow2(PrimeBits - 1) <= th[t].n
            /\ th[t].n < Pow2(PrimeBits)

\* C18 amended: the value returned by generate_prime(bits) is at least 3, at
\* least the sample and below 2^(bits+1): its bit length is at most bits + 1,
\* and can be anything from 2 up.
C18_BitLengthAtMostOneMore ==
    \A t \in {1, 2} :
        th[t].pc = "done" =>
            /\ th[t].n >= 3
            /\ th[t].n >= th[t].s
            /\ th[t].s < Pow2(PrimeBits)
            /\ th[t].n < Pow2(PrimeBits + 1)

\* A 4-bit generation drew 15 and returned the 5-bit prime 17.
C18_Witness ==
    \E t \in {1, 2} :
        /\ th[t].pc = "done"
        /\ PrimeBits = 4
        /\ th[t].s = 15
        /\ th[t].n = 17

-----------------------------------------------------------------------------
(* utils.rs: base_n_to_base10 (checked under SpecDigits).                  *)

\* i64::pow
RECURSIVE pow(_, _)
pow(base, i) == IF i = 0 THEN 1 ELSE base * pow(base, i - 1)

\* fold(0, ..) over digits.iter().enumerate(), from the element at index i on.
RECURSIVE Fold(_, _, _, _)
Fold(items, base, i, acc) ==
    IF i >= Len(items)
    THEN acc
    ELSE LET digit == items[i + 1]
         IN  Fold(items, base, i + 1,
                  IF digit = -1 THEN acc ELSE acc + digit * pow(base, i))

\* Iterator::rev
rev(digits) == [i \in 1..Len(digits) |-> digits[Len(digits) + 1 - i]]

\* base_n_to_base10 folding the digits in their given order, least
\* significant first.
base_n_to_base10_forward(digits, base) == Fold(digits, base, 0, 0)

base_n_to_base10(digits, base) == Fold(rev(digits), base, 0, 0)

\* Numbers have at most MaxDigits digits, each in -2..MaxDigit.
MaxDigits == 3
MaxDigit == 3

\* The bases of the unit tests and of the documentation, and 0, 1 and -2.
Bases == {-2, 0, 1, 2, 3, 10, 16, 28}

Call_base_n_to_base10 ==
    \E digits \in SeqsUpTo(-2..MaxDigit, MaxDigits), base \in Bases :
        /\ fn = "none"
        /\ fn' = "base_n_to_base10"
        /\ args' = <<digits, base>>
        /\ ret' = base_n_to_base10(digits, base)
        /\ UNCHANGED <<kpc, bits, th, keys, sess>>

NextDigits == Call_base_n_to_base10

SpecDigits == Init /\ [][NextDigits]_vars

\* The value of the first k digits read most significant first, a digit -1
\* counting as 0 (Horner's scheme).
RECURSIVE PositionalValue(_, _, _)
PositionalValue(digits, base, k) ==
    IF k = 0
    THEN 0
    ELSE PositionalValue(digits, base, k - 1) * base
         + (IF digits[k] = -1 THEN 0 ELSE digits[k])

-----------------------------------------------------------------------------
(* caesar.rs: caesar_shift (checked under SpecCaesar).  A string is the    *)
(* sequence of its characters, an alphabet a sequence of one-character     *)
(* strings.                                                                *)

\* n.iter().position(|&r| r == c), counted from 0; -1 stands for None.
RECURSIVE position(_, _, _)
position(n, c, i) ==
    IF i >= Len(n)
    THEN -1
    ELSE IF n[i + 1] = c THEN i ELSE position(n, c, i + 1)

\* m.chars().filter(|&c| c != ' ')
NoSpaces(m) == SelectSeq(m, LAMBDA c : c # " ")

\* caesar_shift moving each symbol k places towards the start of the alphabet.
caesar_shift_backward(m, k, n) ==
    LET kept == NoSpaces(m)
    IN  IF \E j \in 1..Len(kept) : position(n, kept[j], 0) = -1
        THEN Panic
        ELSE [status |-> "ok",
              val |-> [j \in 1..Len(kept) |->
                          n[((position(n, kept[j], 0) + Len(n) * k - k) % Len(n)) + 1]]]

\* position(..).unwrap() panics on a character that is not in the alphabet.
caesar_shift(m, k, n) ==
    LET kept == NoSpaces(m)
    IN  IF \E j \in 1..Len(kept) : position(n, kept[j], 0) = -1
        THEN Panic
        ELSE [status |-> "ok",
              val |-> [j \in 1..Len(kept) |->
                          n[((position(n, kept[j], 0) + k) % Len(n)) + 1]]]

\* Plaintexts have at most MaxCaesarLen characters; shifts are 0..MaxShift and
\* the largest u8.
MaxCaesarLen == 3
MaxShift == 4
MaxU8 == 255

\* The symbols of the small alphabets.
Symbols == {"A", "B", "C"}

\* The alphabet of the unit tests.
Latin ==
    <<"A", "B", "C", "D", "E", "F", "G", "H", "I", "J", "K", "L", "M",
      "N", "O", "P", "Q", "R", "S", "T", "U", "V", "W", "X", "Y", "Z">>

IsDistinct(n) == \A i, j \in 1..Len(n) : n[i] = n[j] => i = j

\* Every alphabet of distinct symbols of Symbols, the empty one included, and
\* the Latin alphabet.
Alphabets ==
    {n \in SeqsUpTo(Symbols, Cardinality(Symbols)) : IsDistinct(n)} \cup {Latin}

\* "HELLO" and "HELLO WORLD", the plaintexts of the unit tests.
Hello == <<"H", "E", "L", "L", "O">>
HelloWorldText == <<"H", "E", "L", "L", "O", " ", "W", "O", "R", "L", "D">>

Plaintexts ==
    SeqsUpTo(Symbols \cup {" "}, MaxCaesarLen) \cup {Hello, HelloWorldText}

Call_caesar_shift ==
    \E m \in Plaintexts, k \in (0..MaxShift) \cup {MaxU8}, n \in Alphabets :
        /\ fn = "none"
        /\ fn' = "caesar_shift"
        /\ args' = <<m, k, n>>
        /\ ret' = caesar_shift(m, k, n)
        /\ UNCHANGED <<kpc, bits, th, keys, sess>>

NextCaesar == Call_caesar_shift

SpecCaesar == Init /\ [][NextCaesar]_vars

\* The indices of the characters of m that are not spaces.
Kept(m) == {i \in 1..Len(m) : m[i] # " "}

\* C20: for an alphabet of distinct symbols, a shift k and a plaintext of
\* alphabet symbols and spaces, caesar_shift drops every space and replaces
\* each other symbol, at index p of the alphabet, by the symbol at index
\* (p + k) mod the alphabet's length, in the original order: one output symbol
\* per non-space character.  With k = 0 the result is the input without its
\* spaces, and the empty input gives the empty string.
C20_ShiftWithinAlphabet ==
    (fn = "caesar_shift") =>
        LET m == args[1]
            k == args[2]
            n == args[3]
            InAlphabet(c) == \E p \in 1..Len(n) : n[p] = c
        IN  (IsDistinct(n) /\ \A i \in Kept(m) : InAlphabet(m[i])) =>
                /\ ret.status = "ok"
                /\ Len(ret.val) = Cardinality(Kept(m))
                /\ \A i \in Kept(m) :
                       LET r == Cardinality({j \in Kept(m) : j <= i})
                           p == CHOOSE q \in 1..Len(n) : n[q] = m[i]
                       IN  /\ ret.val[r] = n[((p - 1 + k) % Len(n)) + 1]
                           /\ k = 0 => ret.val[r] = m[i]
                /\ m = <<>> => ret.val = <<>>
                /\ (m = Hello /\ k = 3 /\ n = Latin) =>
                       ret.val = <<"K", "H", "O", "O", "R">>
                /\ (m = HelloWorldText /\ k = 3 /\ n = Latin) =>
                       ret.val = <<"K", "H", "O", "O", "R", "Z", "R", "U", "O", "G">>

\* A plaintext with a space has been shifted past the end of its alphabet.
C20_Witness ==
    /\ fn = "caesar_shift"
    /\ args = << <<"C", " ", "A">>, 2, <<"B", "A", "C">> >>
    /\ ret = [status |-> "ok", val |-> <<"A", "B">>]

-----------------------------------------------------------------------------
(* miller_rabin against the reference strong-probable-prime test (checked  *)
(* under SpecPrime).                                                       *)

\* n is a strong probable prime to base a: with n - 1 = 2^r * d and d odd,
\* a^d = 1 (mod n), or a^(d * 2^j) = n - 1 (mod n) for some j in 0..r-1.
StrongProbablePrime(n, a) ==
    LET r == trailing_zeros(n - 1)
        d == (n - 1) \div Pow2(r)
    IN  \/ modpow(a, d, n) = 1
        \/ \E j \in 0..(r - 1) : modpow(a, d * Pow2(j), n) = n - 1

\* C21: for every n > 1 that passes the small-prime pre-filter and every k,
\* miller_rabin(n, k) is true exactly when n is a strong probable prime to
\* each base small_primes[i mod 25], i in 0..k-1; the extra squaring the
\* code's loop bound allows never changes the verdict of a round.
C21_MatchesReferenceTest ==
    (fn = "miller_rabin" /\ args[1] > 1 /\ Sieve(args[1], 1) = "pass") =>
        ret = Bool(\A i \in 0..(args[2] - 1) :
                      StrongProbablePrime(args[1],
                          small_primes[(i % Len(small_primes)) + 1]))

\* A composite that the pre-filter lets through passes the round of base 2
\* and is rejected by the round of base 3.
C21_Witness ==
    /\ fn = "miller_rabin"
    /\ args = <<49141, 2>>
    /\ StrongProbablePrime(49141, 2)
    /\ ~StrongProbablePrime(49141, 3)
    /\ ret = Bool(FALSE)

-----------------------------------------------------------------------------
(* The message round trip with null characters (checked under SpecKeys).   *)

Ascii(message) == \A i \in 1..Len(message) : message[i] <= 127

\* The returned exponents are inverse modulo (p - 1)(q - 1).
ValidKeyPair ==
    /\ HaveKeys
    /\ LET phi == calculate_totient(th[1].n, th[2].n)
       IN  MulMod(keys.e % phi, keys.d, phi) = 1

\* C22: for a valid key pair with chunk size >= 1 and an ASCII message with
\* null characters anywhere, decrypt_message(encrypt_message(message)) is the
\* message without its trailing null characters: nothing else is lost.
C22_OnlyTrailingNullsLost ==
    (/\ ValidKeyPair
     /\ calculate_chunk_size(keys.n) >= 1
     /\ sess.op = "decrypt_message"
     /\ Ascii(sess.msg)) =>
        sess.out = [status |-> "ok", val |-> trim_end_nulls(sess.msg)]

-----------------------------------------------------------------------------
(* Termination of the arithmetic core (checked under SpecMath).            *)

\* C23: binary_extended_gcd(a, b), and so mod_inverse(a, m), terminates for
\* every pair of signed integers, a = 0, b = 0 (m = 0) and both 0 included:
\* the shift loop and the halving and subtraction loops all finish.
C23_AlwaysTerminates ==
    (fn \in {"binary_extended_gcd", "mod_inverse"}) => ret.status # "diverges"

-----------------------------------------------------------------------------
(* Totality of miller_rabin and generate_prime (checked under SpecPrime    *)
(* for the test, under SpecKeys for the generation).                       *)

\* C24: miller_rabin(n, k) returns a boolean for every n >= 0 and k >= 0
\* without failing, false for n = 0 and n = 1; so generate_prime returns a
\* value for every sample, 0 and 1 included.
C24_MillerRabinTotal ==
    /\ (fn = "miller_rabin") =>
           /\ ret.status = "ok"
           /\ args[1] \in {0, 1} => ret.val = FALSE
    /\ \A t \in {1, 2} : th[t].pc # "panic"

-----------------------------------------------------------------------------
(* encrypt_message called with a key of the caller's (checked under        *)
(* SpecEncrypt).                                                           *)

\* Moduli 2..MaxSmallModulus, on both sides of the 8-bit boundary.
MaxSmallModulus == 129

\* "This is a test message.", the message of the benchmark.
BenchMessage ==
    <<84, 104, 105, 115, 32, 105, 115, 32, 97, 32, 116, 101, 115, 116, 32,
      109, 101, 115, 115, 97, 103, 101, 46>>

\* The keys (n, 3) for every small modulus, the benchmark's (33, 3) among
\* them, and one 16-bit key.
EncryptKeys == {<<n, 3>> : n \in 2..MaxSmallModulus} \cup {<<36413, 65537>>}

Call_encrypt_message ==
    \E message \in Messages \cup {BenchMessage}, key \in EncryptKeys :
        /\ fn = "none"
        /\ fn' = "encrypt_message"
        /\ args' = <<message, key>>
        /\ ret' = encrypt_message(message, key)
        /\ UNCHANGED <<kpc, bits, th, keys, sess>>

NextEncrypt == Call_encrypt_message

SpecEncrypt == Init /\ [][NextEncrypt]_vars

\* C25: encrypt_message returns a ciphertext sequence without failing for
\* every message and every public key with n >= 2, moduli shorter than 8
\* bits such as n = 33 included: the chunk size handed to chunk_message is
\* never 0.
C25_EncryptMessageNeverFails ==
    (fn = "encrypt_message" /\ args[2][1] >= 2) =>
        /\ calculate_chunk_size(args[2][1]) # 0
        /\ ret.status = "ok"

-----------------------------------------------------------------------------
(* generate_keys as a fork-join (checked under SpecKeys).                  *)

\* A step that changes one closure leaves the other closure and the caller's
\* state as they were; the caller's steps leave both closures as they were.
Independent ==
    /\ \A t \in {1, 2} :
           th'[t] # th[t] =>
               /\ th'[3 - t] = th[3 - t]
               /\ UNCHANGED <<kpc, bits, keys, sess>>
    /\ (kpc' # kpc /\ kpc # "idle") => th' = th

\* C26: the two prime generations are a fork-join without shared mutable
\* state.  Under every interleaving the derivation starts only after both
\* generations have completed, and the result returned is the same function
\* of (p, q), p from the first closure and q from the second, whichever
\* finished first.
C26_ForkJoin ==
    /\ [](kpc = "joined" => \A t \in {1, 2} : th[t].pc = "done")
    /\ []((kpc = "returned" /\ keys # Panic) =>
              /\ \A t \in {1, 2} : th[t].pc = "done"
              /\ keys = generate_keys_result(th[1].n, th[2].n))
    /\ [][Independent]_vars

\* The first closure is still testing candidates while the second has
\* returned its prime, and the caller has not joined.
C26_Witness ==
    /\ kpc = "forked"
    /\ th[1].pc = "test"
    /\ th[1].n = 2800 + 1
    /\ th[2].pc = "done"
    /\ th[2].n = 13

====
